---- MODULE Spec2Model ----
(***************************************************************************)
(* State-machine model of the lane boundary factor of                      *)
(* carla-semantic-localization (src/localization/lane.py).                 *)
(*                                                                         *)
(* Numbers.  A line coefficient or a matrix entry is <<v>> with v an       *)
(* integer, or NonFinite for what numpy yields on a division by zero (inf  *)
(* or nan).  Headings are whole quarter turns and slopes are integers, so  *)
(* that np.sin, np.cos and every quotient are exact (Quot has no value on  *)
(* an inexact quotient).  A line's heading alpha = arctan(c1) is kept as   *)
(* its tangent, and the normal form (a, b, c) = (-sin, cos, a*px + b*c0)   *)
(* is kept up to its common positive factor sqrt(1 + c1^2): every use of   *)
(* the normal form in the program is a ratio in which that factor cancels. *)
(* Probabilities and weights are exact rationals [n, d].  A residual or a  *)
(* Jacobian is kept as its unscaled entries with the multiplier k applied  *)
(* to them.                                                                *)
(*                                                                         *)
(* Densities.  scipy's multivariate_normal.pdf is kept to two positive     *)
(* levels, in a unit in which the peak of the null density of line 194 is  *)
(* NullPdf: PeakPdf at zero error, and TailPdf (below NullPdf) elsewhere.  *)
(* The null density has covariance diag(3e3, 3e3) and an argument scaled   *)
(* by 1e-2, so it stays at its peak over the whole range of coefficients.  *)
(*                                                                         *)
(* Driver.  The loop of main() in src/sliding_window_localization.py is a  *)
(* second specification, DriverSpec, with one action per call the loop     *)
(* makes on the sliding window graph manager.  The manager itself          *)
(* (localization.graph_manager) is modelled from the manager's contract:   *)
(* its active keys, its factors with the keys they reference, and the keys *)
(* the last solve covered.                                                 *)
(***************************************************************************)
EXTENDS Integers, Sequences, FiniteSets, TLC

VARIABLES extractor, f, ret, ev,               \* the lane boundary factor
          idx, pos, sw_graph, call, todo, prior_idx, \* the localization driver
          pose_estimations,
          world, carla, main                     \* the data collector

factor_vars == <<extractor, f, ret, ev>>
driver_vars == <<idx, pos, sw_graph, call, todo, prior_idx, pose_estimations>>
collector_vars == <<world, carla, main>>
vars == <<extractor, f, ret, ev, idx, pos, sw_graph, call, todo, prior_idx,
          pose_estimations, world, carla, main>>

\* ------------------------------------------------------------------ bounds
MaxFeat == 2     \* most expected markings in one extractor answer
Px == 1          \* distance from rear axle to front bumper

\* ------------------------------------------------------- optional values
None == << >>
Some(v) == <<v>>
IsNone(o) == o = << >>
Get(o) == o[1]

\* the value of a local, evaluated once
The(S) == CHOOSE v \in S : TRUE

\* ------------------------------------------------------------- rationals
Abs(i) == IF i < 0 THEN -i ELSE i

RECURSIVE Gcd(_, _)
Gcd(i, j) == IF j = 0 THEN i ELSE Gcd(j, i % j)

Reduced(n, d, g) == [n |-> n \div g, d |-> d \div g]
Rat(n, d) == Reduced(n, d, Gcd(Abs(n), d))
Lowest(p) == Rat(p.n, p.d)
RAdd(p, q) == [n |-> p.n * q.d + q.n * p.d, d |-> p.d * q.d]
RSub(p, q) == [n |-> p.n * q.d - q.n * p.d, d |-> p.d * q.d]
RMul(p, q) == [n |-> p.n * q.n, d |-> p.d * q.d]
RDiv(p, q) == [n |-> p.n * q.d, d |-> p.d * q.n]
RLess(p, q) == p.n * q.d < q.n * p.d
REq(p, q) == p.n * q.d = q.n * p.d

RECURSIVE RSum(_)
RSum(s) == IF s = << >> THEN Rat(0, 1) ELSE RAdd(Head(s), RSum(Tail(s)))

\* ------------------------------------------------------------ coefficients
NonFinite == << >>
Fin(v) == <<v>>
IsFinite(u) == u # << >>
Neg(u) == IF IsFinite(u) THEN Fin(-u[1]) ELSE NonFinite
Add(u, v) == IF IsFinite(u) /\ IsFinite(v) THEN Fin(u[1] + v[1]) ELSE NonFinite
Sub(u, v) == IF IsFinite(u) /\ IsFinite(v) THEN Fin(u[1] - v[1]) ELSE NonFinite
Mul(u, v) == IF IsFinite(u) /\ IsFinite(v) THEN Fin(u[1] * v[1]) ELSE NonFinite
Exact(n, d) == CHOOSE q \in {n \div d} : q * d = n
Quot(u, v) ==
    IF ~(IsFinite(u) /\ IsFinite(v)) \/ v[1] = 0 THEN NonFinite
    ELSE IF v[1] < 0 THEN Fin(Exact(-u[1], -v[1]))
    ELSE Fin(Exact(u[1], v[1]))

\* np.cos and np.sin of a heading given in quarter turns
Cos(q) == IF q % 4 = 0 THEN 1 ELSE IF q % 4 = 2 THEN -1 ELSE 0
Sin(q) == IF q % 4 = 1 THEN 1 ELSE IF q % 4 = 3 THEN -1 ELSE 0

\* np.tan(alpha - dtheta), alpha given by its tangent t
TanMinus(t, q) ==
    IF q % 2 = 0 THEN t
    ELSE IF ~IsFinite(t) THEN Fin(0)
    ELSE Neg(Quot(Fin(1), t))

\* -------------------------------------------------------------- domains
Types == {"Solid", "Broken"}
Markings ==
    { [type |-> "Solid", coeffs |-> <<Fin(0), Fin(0)>>],
      [type |-> "Solid", coeffs |-> <<Fin(1), Fin(0)>>],
      [type |-> "Broken", coeffs |-> <<Fin(0), Fin(0)>>] }
\* the extractor lists each lane boundary around the pose once
MarkingLists ==
    UNION { {m \in [1..k -> Markings] : \A i, j \in 1..k : m[i] = m[j] => i = j} :
            k \in 0..MaxFeat }
JunctionFlags == {<<FALSE, FALSE>>, <<TRUE, FALSE>>, <<FALSE, TRUE>>}
Answers ==
    { [in_junction |-> j[1], into_junction |-> j[2], markings |-> m] :
        j \in JunctionFlags, m \in MarkingLists }
Origin == [x |-> 0, y |-> 0, theta |-> 0]
Poses ==
    { Origin,
      [x |-> 1, y |-> 0, theta |-> 0],
      [x |-> 0, y |-> 0, theta |-> 1] }
ProbNulls == {Rat(1, 10), Rat(1, 2)}
Detections ==
    { [type |-> "Solid", coeffs |-> <<Fin(0), Fin(0)>>],
      [type |-> "Broken", coeffs |-> <<Fin(1), Fin(0)>>] }
\* a lane factor configuration; semantic_gate_threshold is None when not given
Configs ==
    [static : BOOLEAN, prob_null : ProbNulls, semantic_gate_threshold : {None}]
    \cup { [static |-> FALSE, prob_null |-> Rat(1, 10),
            semantic_gate_threshold |-> Some(Rat(99, 100))] }

\* ------------------------------------------------------- class attributes
\* faulty variant of line 66: a gate below every compatibility
SemGateLowered == Rat(1, 1000)

sem_gate == Rat(9, 10)
_null_hypo_normal_form == [a |-> Fin(0), b |-> Fin(1), c |-> Fin(0), alpha |-> Fin(0)]

\* --------------------------------------------------------- pure functions
compute_normal_form_line_coeffs(px, expected_c0, expected_c1) ==
    [ a |-> Neg(expected_c1),
      b |-> IF IsFinite(expected_c1) THEN Fin(1) ELSE Fin(0),
      c |-> Add(Mul(Neg(expected_c1), Fin(px)),
                Mul(IF IsFinite(expected_c1) THEN Fin(1) ELSE Fin(0), expected_c0)),
      alpha |-> expected_c1 ]

_conditional_prob_type(expected_type, measured_type) ==
    IF expected_type = measured_type THEN Rat(95, 100) ELSE Rat(45, 10000)

\* faulty variant of the gate: every candidate passes
GateOpen(pc) == TRUE

\* line 219: pc > self.sem_gate
PassesGate(pc) == RLess(sem_gate, pc)


\* multivariate_normal.pdf(e, cov=innov) of line 213, in units of NullPdf / 2
PeakPdf == 4
TailPdf == 1
multivariate_normal_pdf(e) == IF e = <<Fin(0), Fin(0)>> THEN Rat(PeakPdf, 1) ELSE Rat(TailPdf, 1)

\* multivariate_normal.pdf(null_e, cov=diag(3e3, 3e3)) of line 194
NullPdf == 2

\* H = [[c1, -1, h13], [0, 0, -1/cos(alpha)^2]]; cos(alpha)^2 is b^2 / (a^2 + b^2)
HMatrix(px, nf) ==
    << << nf.alpha, Fin(-1),
          Add(Fin(-px), Quot(Add(Neg(Mul(nf.a, nf.c)), Mul(Mul(nf.a, nf.a), Fin(px))),
                             Mul(nf.b, nf.b))) >>,
       << Fin(0), Fin(0),
          Neg(Quot(Add(Mul(nf.a, nf.a), Mul(nf.b, nf.b)), Mul(nf.b, nf.b))) >> >>

compute_H(px, expected_c0, expected_c1) ==
    HMatrix(px, compute_normal_form_line_coeffs(px, expected_c0, expected_c1))

\* Transform.from_conventional(location, orientation)
from_conventional(location, orientation) == [location |-> location, orientation |-> orientation]

\* Transform.tform_w2e_numpy_array(location): a world point in the frame of the transform
tform_w2e_numpy_array(tform, location) ==
    LET q == tform.orientation[3]
        ex == location[1] - tform.location[1]
        ey == location[2] - tform.location[2]
    IN  <<Cos(q) * ex + Sin(q) * ey, Cos(q) * ey - Sin(q) * ex>>

\* get_fbumper_location(location, orientation, px): px ahead along the heading
get_fbumper_location(location, orientation, px) ==
    <<location[1] + px * Cos(orientation[3]), location[2] + px * Sin(orientation[3]),
      location[3]>>

\* --------------------------------------------------------------- the factor
\* GeoLaneBoundaryFactor.__init__: the instance it creates (lines 77-113)
NewFactor(key, detected_marking, z, pose_uncert, dist_raxle_to_fbumper, lane_factor_config) ==
    [ key |-> key,
      detected_marking |-> detected_marking,
      z |-> z,
      pose_uncert |-> pose_uncert,
      px |-> dist_raxle_to_fbumper,
      config |-> lane_factor_config,
      noise_cov |-> "diag(stddev_c0, stddev_c1)",
      prob_null |-> lane_factor_config.prob_null,
      static |-> lane_factor_config.static,
      in_junction |-> FALSE,
      into_junction |-> FALSE,
      me_format_expected_markings |-> None,
      _init_tform |-> None,
      _init_orientation |-> None,
      _first_time |-> TRUE,
      _init_normal_forms |-> None,
      expected_coeffs |-> None,
      _scale |-> Rat(1, 1),
      _null_hypo |-> FALSE ]

\* faulty variant of the guard of __init__: the extractor is not looked at
InitUnguarded(cls_extractor) == FALSE

\* the guard of __init__ (lines 73-75): TRUE when construction raises RuntimeError
InitRaises(cls_extractor) == IsNone(cls_extractor)

\* _get_pose_diff: raised, or (dx, dy, dtheta)
_get_pose_diff(self, location, orientation) ==
    IF IsNone(self._init_tform) \/ IsNone(self._init_orientation)
    THEN [raised |-> TRUE, diff |-> <<0, 0, 0>>]
    ELSE LET delta == tform_w2e_numpy_array(Get(self._init_tform), location)
             dtheta == orientation[3] - Get(self._init_orientation)[3]
         IN  [raised |-> FALSE, diff |-> <<delta[1], delta[2], dtheta>>]

\* faulty variant of line 280: the lever arm a*px*cos(dtheta) is added
ExpectedC0C1LeverArmAdded(self, normal_form, pose_diff) ==
    LET a == normal_form.a
        b == normal_form.b
        c == normal_form.c
        dx == Fin(pose_diff[1])
        dy == Fin(pose_diff[2])
        cosd == Fin(Cos(pose_diff[3]))
        sind == Fin(Sin(pose_diff[3]))
        px == Fin(self.px)
    IN  << Quot(Sub(Sub(Add(Sub(c, Mul(a, dx)), Mul(Mul(a, px), cosd)), Mul(b, dy)),
                    Mul(Mul(b, px), sind)),
                Add(Neg(Mul(a, sind)), Mul(b, cosd))),
           TanMinus(normal_form.alpha, pose_diff[3]) >>

_compute_expected_c0c1(self, normal_form, pose_diff) ==
    LET a == normal_form.a
        b == normal_form.b
        c == normal_form.c
        dx == Fin(pose_diff[1])
        dy == Fin(pose_diff[2])
        cosd == Fin(Cos(pose_diff[3]))
        sind == Fin(Sin(pose_diff[3]))
        px == Fin(self.px)
    IN  << Quot(Sub(Sub(Sub(Sub(c, Mul(a, dx)), Mul(Mul(a, px), cosd)), Mul(b, dy)),
                    Mul(Mul(b, px), sind)),
                Add(Neg(Mul(a, sind)), Mul(b, cosd))),
           TanMinus(normal_form.alpha, pose_diff[3]) >>

\* lines 124-128: the initially guessed pose is stored while _first_time holds
\* faulty variant of lines 124-128: the initial pose is not recorded
InitPoseNotRecorded(self, location, orientation) == self

\* faulty variant of lines 124-128: the initial pose is recorded only once
RecordInitPoseOnce(self, location, orientation) ==
    IF self._first_time /\ IsNone(self._init_tform)
    THEN [self EXCEPT !._init_tform = Some(from_conventional(location, orientation)),
                      !._init_orientation = Some(orientation)]
    ELSE self

\* lines 124-128: the initial pose, recorded while _first_time holds
RecordInitPose(self, location, orientation) ==
    IF self._first_time
    THEN [self EXCEPT !._init_tform = Some(from_conventional(location, orientation)),
                      !._init_orientation = Some(orientation)]
    ELSE self

\* faulty variant of line 146: _first_time is left as it is
FirstTimeKept == TRUE

\* line 146: the value _first_time takes once the snapshot has been stored
FirstTimeAfterSnapshot == FALSE

\* a python list with its elements evaluated
AsList(s) == << >> \o s

\* lines 136-137, 162-163: the fields the extractor's answer is stored in
Extracted(self, answer) ==
    [self EXCEPT !.in_junction = answer.in_junction,
                 !.into_junction = answer.into_junction,
                 !.me_format_expected_markings = Some(answer.markings)]

\* lines 139-140, 166-167: the [c0, c1] of each expected marking
CoeffsOf(markings) == AsList([i \in 1..Len(markings) |-> markings[i].coeffs])

\* lines 170-171: the type of each expected marking
TypesOf(markings) == AsList([i \in 1..Len(markings) |-> markings[i].type])

\* lines 143-144: the normal forms stored on the first evaluation
NormalForms(px, coeffs) ==
    AsList([i \in 1..Len(coeffs) |->
               compute_normal_form_line_coeffs(px, coeffs[i][1], coeffs[i][2])])

\* lines 132-146: static mode, first evaluation
StaticFirst(self, coeffs) ==
    [ self |-> [self EXCEPT !._init_normal_forms = Some(NormalForms(self.px, coeffs)),
                            !._first_time = FirstTimeAfterSnapshot],
      raised |-> FALSE, queried |-> TRUE,
      expected_coeffs_list |-> coeffs, expected_type_list |-> None ]

\* lines 147-156: static mode, later evaluations
StaticLater(self, forms, pose_diff) ==
    IF pose_diff.raised
    THEN [ self |-> self, raised |-> TRUE, queried |-> FALSE,
           expected_coeffs_list |-> << >>, expected_type_list |-> None ]
    ELSE [ self |-> self, raised |-> FALSE, queried |-> FALSE,
           expected_coeffs_list |-> AsList([i \in 1..Len(forms) |->
               _compute_expected_c0c1(self, forms[i], pose_diff.diff)]),
           expected_type_list |-> None ]

\* faulty variant of lines 157-171: the dynamic branch clears _first_time
DynamicClearingFirstTime(self, markings) ==
    [ self |-> [self EXCEPT !._first_time = FALSE], raised |-> FALSE, queried |-> TRUE,
      expected_coeffs_list |-> CoeffsOf(markings),
      expected_type_list |-> Some(TypesOf(markings)) ]

\* faulty variant of lines 157-171: the answer of the previous query is used
DynamicFromMemory(self, markings) ==
    [ self |-> self, raised |-> FALSE, queried |-> FALSE,
      expected_coeffs_list |-> CoeffsOf(markings),
      expected_type_list |-> Some(TypesOf(markings)) ]

\* lines 157-171: dynamic mode
Dynamic(self, markings) ==
    [ self |-> self, raised |-> FALSE, queried |-> TRUE,
      expected_coeffs_list |-> CoeffsOf(markings),
      expected_type_list |-> Some(TypesOf(markings)) ]

\* faulty variant of lines 130-156: a static factor queries the extractor on
\* every evaluation
ExpectationRequerying(self, location, orientation, answer) ==
    IF self.static
    THEN The({ StaticFirst(Extracted(self, answer), coeffs) :
               coeffs \in {CoeffsOf(answer.markings)} })
    ELSE Dynamic(Extracted(self, answer), answer.markings)

\* lines 130-171: the expected markings of this evaluation.  expected_type_list
\* is a local that only the dynamic branch assigns.
Expectation(self, location, orientation, answer) ==
    IF self.static
    THEN IF self._first_time
         THEN The({ StaticFirst(Extracted(self, answer), coeffs) :
                    coeffs \in {CoeffsOf(answer.markings)} })
         ELSE The({ StaticLater(self, Get(self._init_normal_forms), pose_diff) :
                    pose_diff \in {_get_pose_diff(self, location, orientation)} })
    ELSE Dynamic(Extracted(self, answer), answer.markings)

\* faulty variant of lines 196-197: the static flag is cleared with the others
ClearFlagsAndMode(self) ==
    [self EXCEPT !.in_junction = FALSE, !.into_junction = FALSE, !.static = FALSE]

\* lines 196-197: the junction flags as line 199 reads them
ClearJunctionFlags(self) == [self EXCEPT !.in_junction = FALSE, !.into_junction = FALSE]

\* a residual: the entries e, to be multiplied by k
VSub(u, v) == <<Sub(u[1], v[1]), Sub(u[2], v[2])>>
Residual(e, k) == [e |-> e, k |-> k]
Scaled(r, k) == [e |-> r.e, k |-> RMul(r.k, k)]

\* lines 187-194: the null hypothesis of this evaluation
NullHypothesis(self, pose_diff) ==
    The({ [ c0c1 |-> null_c0c1,
            e |-> Residual(VSub(null_c0c1, self.detected_marking.coeffs), Rat(1, 100)),
            M |-> RMul(self.prob_null, Rat(NullPdf, 1)) ] :
          null_c0c1 \in {_compute_expected_c0c1(self, _null_hypo_normal_form, pose_diff)} })

\* lines 188-197: the factor and the null hypothesis as line 199 finds them
Nulled(ex, pose_diff) ==
    IF ex.raised \/ pose_diff.raised
    THEN [ex |-> ex, outcome |-> "RuntimeError", self |-> ex.self, null |-> None]
    ELSE The({ [ ex |-> ex, outcome |-> "ok",
                 self |-> ClearJunctionFlags(
                              [ex.self EXCEPT !.expected_coeffs = Some(null.c0c1)]),
                 null |-> Some(null) ] :
               null \in {NullHypothesis(ex.self, pose_diff.diff)} })

\* lines 210-215: one pass of the loop over the expected markings
Hypothesis(index, exp_coeffs, exp_type, measured_coeffs, measured_type) ==
    [ index |-> index,
      e |-> VSub(exp_coeffs, measured_coeffs),
      exp_coeffs |-> exp_coeffs,
      pp |-> multivariate_normal_pdf(VSub(exp_coeffs, measured_coeffs)),
      pc |-> _conditional_prob_type(exp_type, measured_type),
      pz |-> RMul(multivariate_normal_pdf(VSub(exp_coeffs, measured_coeffs)),
                  _conditional_prob_type(exp_type, measured_type)) ]

\* line 209: zip(expected_coeffs_list, expected_type_list, innov_matrices)
Zipped(expected_coeffs_list, expected_type_list, measured_coeffs, measured_type) ==
    AsList([i \in 1..Len(expected_coeffs_list) |->
               Hypothesis(i, expected_coeffs_list[i], expected_type_list[i],
                          measured_coeffs, measured_type)])

\* line 219: the gate
Gate(h) == PassesGate(h.pc)

\* lines 209-223: the hypotheses that pass the gate, in extractor order
Gated(expected_coeffs_list, expected_type_list, measured_coeffs, measured_type) ==
    SelectSeq(Zipped(expected_coeffs_list, expected_type_list, measured_coeffs,
                     measured_type), Gate)

\* line 225: H
LikelihoodsOf(cand) == AsList([k \in 1..Len(cand) |-> cand[k].pz])

\* faulty variant of line 230: the likelihoods are not divided by their sum
NormalizedWithoutSum(prob_null, H, sum) ==
    AsList([k \in 1..Len(H) |-> Lowest(RMul(RSub(Rat(1, 1), prob_null), H[k]))])

\* line 230: W = (1 - prob_null) * (H / sum(H))
Normalized(prob_null, H, sum) ==
    AsList([k \in 1..Len(H) |->
               Lowest(RMul(RSub(Rat(1, 1), prob_null), RDiv(H[k], sum)))])

NormalizedWeights(prob_null, H) == The({ Normalized(prob_null, H, sum) : sum \in {RSum(H)} })

\* lines 231-233: M = W * pps with null_M in front
Posteriors(W0, cand, null_M) == <<null_M>> \o [k \in 1..Len(cand) |-> RMul(W0[k], cand[k].pp)]

\* faulty variant of np.argmax: the last position of the largest entry
ArgMaxLast(M) ==
    (CHOOSE i \in 1..Len(M) :
        /\ \A j \in 1..Len(M) : ~RLess(M[i], M[j])
        /\ \A j \in (i + 1)..Len(M) : RLess(M[j], M[i])) - 1

\* np.argmax: the first position of the largest entry (0-based)
ArgMax(M) ==
    (CHOOSE i \in 1..Len(M) :
        /\ \A j \in 1..Len(M) : ~RLess(M[i], M[j])
        /\ \A j \in 1..(i - 1) : RLess(M[j], M[i])) - 1

\* faulty variant of line 235: the weight is not squared
DownscaleUnsquared(w) == w

\* line 235: the downscale factor of the selected hypothesis
Downscale(w) == RMul(w, w)

\* the positions in the extractor's answer of the hypotheses that passed the gate
IndexesOf(cand) == AsList([k \in 1..Len(cand) |-> cand[k].index])

\* lines 235-242: the fields and the residual of the selected hypothesis
Selected(self, null, cand, W, asso_idx) ==
    [ self |-> [self EXCEPT
                  !._scale = Downscale(W[asso_idx + 1]),
                  !.expected_coeffs =
                      Some(IF asso_idx = 0 THEN null.c0c1 ELSE cand[asso_idx].exp_coeffs),
                  !._null_hypo = (asso_idx = 0)],
      error |-> Scaled(IF asso_idx = 0 THEN null.e
                       ELSE Residual(cand[asso_idx].e, Rat(1, 1)),
                       Downscale(W[asso_idx + 1])),
      gated |-> IndexesOf(cand), W |-> W, asso_idx |-> Some(asso_idx) ]

\* lines 230-234: W with prob_null in front, and the position of the largest M
Weighted(prob_null, cand, null_M, W0) ==
    [W |-> <<prob_null>> \o W0, asso_idx |-> ArgMax(Posteriors(W0, cand, null_M))]

\* lines 228-244: hypothesis selection over the gated markings
Selection(self, null, cand) ==
    IF Len(cand) > 0
    THEN The({ Selected(self, null, cand, w.W, w.asso_idx) :
               w \in { Weighted(self.prob_null, cand, null.M, W0) :
                       W0 \in {NormalizedWeights(self.prob_null, LikelihoodsOf(cand))} } })
    ELSE [ self |-> [self EXCEPT !._null_hypo = TRUE],
           error |-> << >>, gated |-> << >>, W |-> << >>, asso_idx |-> None ]

\* lines 204-244: data association
Association(self, expected_coeffs_list, expected_type_list, null) ==
    The({ Selection(self, null, cand) :
          cand \in {Gated(expected_coeffs_list, expected_type_list,
                          self.detected_marking.coeffs, self.detected_marking.type)} })

\* faulty variant of lines 199-244: an empty list of expected markings is not
\* told apart, and the association loop of line 209 is entered
BranchWithoutEmptyCase(self, ex, null) ==
    IF self.in_junction \/ self.into_junction
    THEN [ self |-> [self EXCEPT !._null_hypo = TRUE], outcome |-> "ok",
           error |-> << >>, gated |-> << >>, W |-> << >>, asso_idx |-> None ]
    ELSE IF IsNone(ex.expected_type_list)
    THEN [ self |-> self, outcome |-> "NameError",
           error |-> << >>, gated |-> << >>, W |-> << >>, asso_idx |-> None ]
    ELSE [outcome |-> "ok"] @@ Association(self, ex.expected_coeffs_list,
                                            Get(ex.expected_type_list), null)

\* lines 199-244: the branch taken once the null hypothesis is computed
Branch(self, ex, null) ==
    IF self.in_junction \/ self.into_junction \/ ex.expected_coeffs_list = << >>
    THEN [ self |-> [self EXCEPT !._null_hypo = TRUE], outcome |-> "ok",
           error |-> << >>, gated |-> << >>, W |-> << >>, asso_idx |-> None ]
    ELSE IF IsNone(ex.expected_type_list)
    THEN [ self |-> self, outcome |-> "NameError",
           error |-> << >>, gated |-> << >>, W |-> << >>, asso_idx |-> None ]
    ELSE [outcome |-> "ok"] @@ Association(self, ex.expected_coeffs_list,
                                            Get(ex.expected_type_list), null)

Associated(n) ==
    IF n.outcome = "ok"
    THEN [n |-> n, as |-> Branch(n.self, n.ex, Get(n.null))]
    ELSE [ n |-> n,
           as |-> [ self |-> n.self, outcome |-> n.outcome,
                    error |-> << >>, gated |-> << >>, W |-> << >>, asso_idx |-> None ] ]

\* faulty variant of lines 246-251: a null hypothesis chosen by its posterior
\* keeps the residual of line 238, multiplied by the squared weight
FinishKeepingWeight(ex, null, as) ==
    IF as.outcome = "ok"
    THEN [ self |-> IF as.self._null_hypo
                    THEN [as.self EXCEPT !.expected_coeffs = Some(Get(null).c0c1)]
                    ELSE as.self,
           outcome |-> "ok",
           value |-> Some(IF IsNone(as.asso_idx) THEN Get(null).e ELSE as.error),
           null_c0c1 |-> Some(Get(null).c0c1),
           queried |-> ex.queried, expected_coeffs_list |-> ex.expected_coeffs_list,
           expected_type_list |-> ex.expected_type_list,
           gated |-> as.gated, W |-> as.W, asso_idx |-> as.asso_idx ]
    ELSE [ self |-> as.self, outcome |-> as.outcome, value |-> None,
           null_c0c1 |-> IF IsNone(null) THEN None ELSE Some(Get(null).c0c1),
           queried |-> ex.queried, expected_coeffs_list |-> ex.expected_coeffs_list,
           expected_type_list |-> ex.expected_type_list,
           gated |-> as.gated, W |-> as.W, asso_idx |-> as.asso_idx ]

\* lines 246-251: what error() returns or raises, and the fields it leaves behind
Finish(ex, null, as) ==
    IF as.outcome = "ok"
    THEN [ self |-> IF as.self._null_hypo
                    THEN [as.self EXCEPT !.expected_coeffs = Some(Get(null).c0c1)]
                    ELSE as.self,
           outcome |-> "ok",
           value |-> Some(IF as.self._null_hypo THEN Get(null).e ELSE as.error),
           null_c0c1 |-> Some(Get(null).c0c1),
           queried |-> ex.queried, expected_coeffs_list |-> ex.expected_coeffs_list,
           expected_type_list |-> ex.expected_type_list,
           gated |-> as.gated, W |-> as.W, asso_idx |-> as.asso_idx ]
    ELSE [ self |-> as.self, outcome |-> as.outcome, value |-> None,
           null_c0c1 |-> IF IsNone(null) THEN None ELSE Some(Get(null).c0c1),
           queried |-> ex.queried, expected_coeffs_list |-> ex.expected_coeffs_list,
           expected_type_list |-> ex.expected_type_list,
           gated |-> as.gated, W |-> as.W, asso_idx |-> as.asso_idx ]

\* lines 121-251
ErrorAt(self, location, orientation, answer) ==
    The({ Finish(a.n.ex, a.n.null, a.as) :
          a \in { Associated(n) :
          n \in { Nulled(ex, _get_pose_diff(ex.self, location, orientation)) :
          ex \in { Expectation(RecordInitPose(self, location, orientation),
                               location, orientation, answer) } } } })

\* GeoLaneBoundaryFactor.error(variables): pose is variables.at(key); answer is
\* what the extractor returns if it is queried.
error(self, pose, answer) ==
    ErrorAt(self, <<pose.x, pose.y, self.z>>, <<0, 0, pose.theta>>, answer)

\* GeoLaneBoundaryFactor.jacobians(variables)
\* faulty variant of lines 258-261: the Jacobian is always multiplied by _scale
JacobiansAlwaysScaled(self) ==
    IF IsNone(self.expected_coeffs)
    THEN [outcome |-> "TypeError", value |-> None]
    ELSE [outcome |-> "ok",
          value |-> Some([ H |-> compute_H(self.px, Get(self.expected_coeffs)[1],
                                           Get(self.expected_coeffs)[2]),
                           k |-> self._scale ])]

jacobians(self) ==
    IF IsNone(self.expected_coeffs)
    THEN [outcome |-> "TypeError", value |-> None]
    ELSE [outcome |-> "ok",
          value |-> Some([ H |-> compute_H(self.px, Get(self.expected_coeffs)[1],
                                           Get(self.expected_coeffs)[2]),
                           k |-> IF self._null_hypo THEN Rat(1, 100) ELSE self._scale ])]

\* ------------------------------------------------ sliding window localization
init_idx == 10      \* first processed index of the recording
end_idx == 2000     \* last processed index of the recording
WarmUp == 10        \* steps before lane and pole factors are added
MaxLen == 22        \* entries of the recording that carry detections
max_window_size == 2   \* most active pose variables

\* a pole is used when detected_pole.x < 50 and abs(detected_pole.y) < 25
PoleDetections == {None, Some(<<FALSE>>), Some(<<TRUE>>), Some(<<TRUE, FALSE, TRUE>>)}

\* what entry i of the recording may hold of a kind of detection: past its
\* first MaxLen entries the recording goes on without detections
DetectionsAt(i, detections) == IF i < MaxLen THEN detections ELSE {None}

\* the recording holds at most one entry past end_idx
MaxRecording == end_idx + 2

Last(s) == s[Len(s)]
KeysOf(s) == { s[i] : i \in 1..Len(s) }

\* SlidingWindowGraphManager(..., first_node_idx)
NewGraph(first_node_idx) ==
    [ first |-> first_node_idx,
      keys |-> << >>,         \* active pose variables, oldest first
      factors |-> << >>,      \* factors in the graph, in the order added
      solved |-> {},          \* keys the last solve has an estimate for
      fresh |-> FALSE,        \* nothing has changed since the last solve
      failed |-> FALSE ]

Factor(type, keys) == [type |-> type, keys |-> keys]

add_prior_factor(g) ==
    IF g.keys # << >>
    THEN [g EXCEPT !.failed = TRUE]
    ELSE [g EXCEPT !.keys = <<g.first>>,
                   !.factors = Append(@, Factor("prior", {g.first})),
                   !.fresh = FALSE]

add_ctrv_between_factor(g) ==
    IF g.keys = << >>
    THEN [g EXCEPT !.failed = TRUE]
    ELSE [g EXCEPT !.keys = Append(@, Last(g.keys) + 1),
                   !.factors = Append(@, Factor("ctrv", {Last(g.keys), Last(g.keys) + 1})),
                   !.fresh = FALSE]

\* add_gnss_factor, add_rs_stop_factor, add_lane_factor, add_pole_factor
AddUnaryFactor(g, type) ==
    IF g.keys = << >>
    THEN [g EXCEPT !.failed = TRUE]
    ELSE [g EXCEPT !.factors = Append(@, Factor(type, {Last(g.keys)})),
                   !.fresh = FALSE]

Newest(keys, n) == SubSeq(keys, Len(keys) - n + 1, Len(keys))
References(fac, keys) == fac.keys \subseteq KeysOf(keys)

try_move_sliding_window_forward(g) ==
    IF Len(g.keys) <= max_window_size
    THEN g
    ELSE LET kept == Newest(g.keys, max_window_size)
         IN  [g EXCEPT !.keys = kept,
                       !.factors = <<Factor("marginal", {kept[1]})>>
                                   \o SelectSeq(@, LAMBDA fac : References(fac, kept)),
                       !.fresh = FALSE]

solve_one_step(g) == [g EXCEPT !.solved = KeysOf(g.keys), !.fresh = TRUE]

get_idc_in_graph(g) == g.keys
IsActive(g, key) == key \in KeysOf(g.keys)

\* get_result(key), get_marignal_cov_matrix(key) and last_optimized_se2
Reads(g, key) == IF IsActive(g, key) THEN g ELSE [g EXCEPT !.failed = TRUE]

NoKey == -1
Call(name, key) == [name |-> name, key |-> key]
NoCall == Call("none", NoKey)

\* the statements of the loop body that act on the graph manager, in a
\* variant that records the latest pose before the graph is optimized
BodyReadingEarly ==
    << "prior", "ctrv", "gnss", "rs_stop", "lane_left", "lane_right", "pole",
       "slide", "last_pose", "solve", "idc", "result", "cov", "last_se2", "end" >>

\* the statements of the loop body that act on the graph manager, in order
Body ==
    << "prior", "ctrv", "gnss", "rs_stop", "lane_left", "lane_right", "pole",
       "slide", "solve", "last_pose", "idc", "result", "cov", "last_se2", "end" >>

After(label) == Body[1 + CHOOSE i \in 1..Len(Body) : Body[i] = label]

\* the statement the driver runs next: a fatal failure of the manager ends it
Goto(label, g) == IF g.failed THEN "aborted" ELSE label

\* ------------------------------------------------------ the data collector
\* src/roaming_data_collector.py: the World object, its three sensors, the
\* simulator they are attached to, and the control of main().
MaxFrame == 3       \* frames the simulator produces within a run
MaxTicks == 1       \* largest n_ticks of a configuration

SensorNames == {"imu", "gnss", "semantic_camera"}
SpawnPoints == { [z |-> 0, roll |-> 0, pitch |-> 0], [z |-> 1, roll |-> 1, pitch |-> 1] }
CollectorConfigs == [sync_mode : BOOLEAN, n_ticks : 0..MaxTicks]

\* the measurement a sensor of the simulator produces for a frame
Event(name, frame) == [timestamp |-> frame, data |-> <<name, frame>>]

\* Sensor.__init__ and the spawn of the sensor actor in the subclass
NewSensor(id) == [sensor |-> id, timestamp |-> 0, data |-> None, _queue |-> << >>]

\* a callback that also stamps the sensor with the event it enqueues
OnEventWritingTimestamp(sensor, event) ==
    [sensor EXCEPT !._queue = Append(@, event), !.timestamp = event.timestamp]

\* self.sensor.listen(lambda event: self._queue.put(event))
OnEvent(sensor, event) == [sensor EXCEPT !._queue = Append(@, event)]

\* update(): event = self._queue.get() and the assignments from that event
update(sensor) ==
    LET event == Head(sensor._queue)
    IN  [sensor EXCEPT !._queue = Tail(@),
                       !.timestamp = event.timestamp,
                       !.data = Some(event.data)]

\* World.__init__, lines 111 to 114
NoWorld == [ego_veh |-> None, imu |-> None, gnss |-> None, semantic_camera |-> None]

\* the simulator before the collector connects: it runs freely
NewCarla(spawn_points) ==
    [ frame |-> 0, synchronous_mode |-> FALSE, autopilot |-> FALSE,
      actors |-> {}, spawned |-> 0,
      pending |-> [name \in SensorNames |-> << >>],
      spawn_points |-> spawn_points ]

\* the locals of main() and of the call it is in
NewMain(script, config) ==
    [ script |-> script, config |-> config, pc |-> "start", world |-> FALSE,
      n |-> 0, ret |-> "none", exc |-> None, spawn_point |-> None ]

SpawnActor(c) == [c EXCEPT !.spawned = @ + 1, !.actors = @ \cup {c.spawned + 1}]

ActorsOf(self) ==
    {Get(self.ego_veh).id : x \in {y \in {1} : ~IsNone(self.ego_veh)}}
    \cup {Get(self[name]).sensor : name \in {n \in SensorNames : ~IsNone(self[n])}}

\* World.destroy: every actor that is held is destroyed and its reference dropped
destroy(self, c) ==
    [ world |-> NoWorld,
      carla |-> [c EXCEPT !.actors = @ \ ActorsOf(self),
                          !.pending = [name \in SensorNames |->
                                         IF IsNone(self[name]) THEN c.pending[name]
                                         ELSE << >>]],
      exc |-> None ]

\* lines 135 to 137
Lifted(transform) == [transform EXCEPT !.z = @ + 2, !.roll = 0, !.pitch = 0]

\* try_spawn_actor(ego_veh_bp, spawn_point), when it succeeds
SpawnEgo(st, transform) ==
    [st EXCEPT !.world.ego_veh = Some([id |-> st.carla.spawned + 1, transform |-> transform]),
               !.carla = SpawnActor(st.carla)]

\* GNSS(...), IMU(...), SemanticCamera(...)
SpawnSensor(st, name) ==
    [st EXCEPT !.world[name] = Some(NewSensor(st.carla.spawned + 1)),
               !.carla = SpawnActor(st.carla)]

\* World.restart up to the call of step_forward.  spawns tells whether
\* try_spawn_actor succeeds at the chosen transform, random_point is the
\* spawn point random.choice picks.
restart(self, c, config, spawn_point, spawns, random_point) ==
    LET settings == [c EXCEPT !.synchronous_mode = config.sync_mode]
        cleared == destroy(self, settings)
        chosen ==
            IF IsNone(self.ego_veh)
            THEN [world |-> self, carla |-> settings, exc |-> None]
            ELSE IF IsNone(spawn_point)
            THEN IF IsNone(cleared.world.ego_veh)
                 THEN [cleared EXCEPT !.exc = Some("AttributeError")]
                 ELSE SpawnEgo(cleared, Lifted(Get(cleared.world.ego_veh).transform))
            ELSE IF spawns THEN SpawnEgo(cleared, Get(spawn_point))
            ELSE cleared
        placed ==
            IF ~IsNone(chosen.exc) \/ ~IsNone(chosen.world.ego_veh) THEN chosen
            ELSE IF c.spawn_points = {} THEN [chosen EXCEPT !.exc = Some("SystemExit")]
            ELSE SpawnEgo(chosen, random_point)
    IN  IF ~IsNone(placed.exc) THEN placed
        ELSE SpawnSensor(SpawnSensor(SpawnSensor(placed, "gnss"), "imu"), "semantic_camera")

\* World.set_ego_autopilot
set_ego_autopilot(self, c, active) ==
    IF IsNone(self.ego_veh)
    THEN [carla |-> c, exc |-> Some("AttributeError")]
    ELSE [carla |-> [c EXCEPT !.autopilot = active], exc |-> None]

\* a frame of the simulator: every sensor that is attached measures
Emit(c, self) ==
    [c EXCEPT !.frame = @ + 1,
              !.pending = [name \in SensorNames |->
                             IF IsNone(self[name]) THEN c.pending[name]
                             ELSE Append(c.pending[name], Event(name, c.frame + 1))]]

\* the statements of main() inside its try block
TryBlock ==
    { "start", "tick", "imu", "gnss", "semantic_camera", "constructed",
      "autopilot", "loop", "restart" }

\* an exception that no finally clause intercepts
RaiseUncaught(m, e) == [m EXCEPT !.pc = "raised", !.exc = Some(e)]

\* an exception leaves the try block of main(); the other caller has none
Raise(m, e) ==
    [m EXCEPT !.pc = IF m.script = "main" THEN "finally" ELSE "raised", !.exc = Some(e)]

End(m) == IF IsNone(m.exc) THEN "done" ELSE "raised"

CollectorInit ==
    /\ extractor = None
    /\ f = None
    /\ ret = [op |-> "none", outcome |-> "ok", value |-> None]
    /\ ev = None
    /\ idx = -1
    /\ pos = "for"
    /\ sw_graph = NewGraph(init_idx)
    /\ call = NoCall
    /\ todo = << >>
    /\ prior_idx = << >>
    /\ pose_estimations = << >>
    /\ world = NoWorld
    /\ \E spawn_points \in {{}, SpawnPoints} : carla = NewCarla(spawn_points)
    /\ \E script \in {"main", "respawn"}, config \in CollectorConfigs :
          main = NewMain(script, config)

\* world = World(...): the constructor up to its call of step_forward
ConstructWorld ==
    /\ main.pc = "start"
    /\ \E random_point \in SpawnPoints :
          LET st == restart(NoWorld, carla, main.config, None, FALSE, random_point)
          IN  /\ world' = st.world
              /\ carla' = st.carla
              /\ main' = IF IsNone(st.exc)
                         THEN [main EXCEPT !.pc = "tick", !.ret = "constructed"]
                         ELSE Raise(main, Get(st.exc))
    /\ UNCHANGED <<factor_vars, driver_vars>>

\* self.carla_world.tick() (line 182)
Tick ==
    /\ main.pc = "tick"
    /\ carla.synchronous_mode => carla.frame < MaxFrame
    /\ carla' = IF carla.synchronous_mode THEN Emit(carla, world) ELSE carla
    /\ main' = [main EXCEPT !.pc = "imu"]
    /\ UNCHANGED world
    /\ UNCHANGED <<factor_vars, driver_vars>>

\* the simulator advances by itself while it is not in synchronous mode
ServerTick ==
    /\ ~carla.synchronous_mode
    /\ carla.frame < MaxFrame
    /\ carla' = Emit(carla, world)
    /\ UNCHANGED <<world, main>>
    /\ UNCHANGED <<factor_vars, driver_vars>>

\* the simulator's thread delivers a measurement to the sensor's callback
Callback ==
    /\ \E name \in SensorNames :
          /\ carla.pending[name] # << >>
          /\ ~IsNone(world[name])
          /\ world' = [world EXCEPT ![name] = Some(OnEvent(Get(@), Head(carla.pending[name])))]
          /\ carla' = [carla EXCEPT !.pending[name] = Tail(@)]
    /\ UNCHANGED main
    /\ UNCHANGED <<factor_vars, driver_vars>>

\* a sensor's update() inside step_forward: get() blocks on an empty queue
Update(name, next) ==
    /\ ~IsNone(world[name])
    /\ Get(world[name])._queue # << >>
    /\ world' = [world EXCEPT ![name] = Some(update(Get(@)))]
    /\ main' = [main EXCEPT !.pc = next]
    /\ UNCHANGED carla
    /\ UNCHANGED <<factor_vars, driver_vars>>

ImuUpdate ==
    /\ main.pc = "imu"
    /\ Update("imu", "gnss")

GnssUpdate ==
    /\ main.pc = "gnss"
    /\ Update("gnss", "semantic_camera")

SemanticCameraUpdate ==
    /\ main.pc = "semantic_camera"
    /\ Update("semantic_camera", main.ret)

\* the constructor returns and main() binds its local world (line 421)
BindWorld ==
    /\ main.pc = "constructed"
    /\ main' = [main EXCEPT !.world = TRUE,
                            !.pc = IF main.script = "main" THEN "autopilot" ELSE "restart"]
    /\ UNCHANGED <<world, carla>>
    /\ UNCHANGED <<factor_vars, driver_vars>>

\* world.set_ego_autopilot(True, config_args['autopilot']) (line 425)
SetEgoAutopilot ==
    /\ main.pc = "autopilot"
    /\ LET r == set_ego_autopilot(world, carla, TRUE)
       IN  /\ carla' = r.carla
           /\ main' = IF IsNone(r.exc) THEN [main EXCEPT !.pc = "loop"]
                      ELSE Raise(main, Get(r.exc))
    /\ UNCHANGED world
    /\ UNCHANGED <<factor_vars, driver_vars>>

\* for _ in range(n_ticks): world.step_forward()
Loop ==
    /\ main.pc = "loop"
    /\ main' = IF main.n < main.config.n_ticks
               THEN [main EXCEPT !.pc = "tick", !.ret = "loop", !.n = @ + 1]
               ELSE [main EXCEPT !.pc = "finally"]
    /\ UNCHANGED <<world, carla>>
    /\ UNCHANGED <<factor_vars, driver_vars>>

\* an exception from outside (KeyboardInterrupt, a lost connection)
Interrupt ==
    /\ main.pc \in TryBlock
    /\ main' = Raise(main, "KeyboardInterrupt")
    /\ UNCHANGED <<world, carla>>
    /\ UNCHANGED <<factor_vars, driver_vars>>

\* a caller other than main() calls world.restart(config_args, spawn_point)
Restart ==
    /\ main.pc = "restart"
    /\ \E spawn_point \in {None} \cup {Some(p) : p \in SpawnPoints},
          spawns \in BOOLEAN, random_point \in SpawnPoints :
          LET st == restart(world, carla, main.config, spawn_point, spawns, random_point)
          IN  /\ world' = st.world
              /\ carla' = st.carla
              /\ main' = IF IsNone(st.exc)
                         THEN [main EXCEPT !.pc = "tick", !.ret = "restarted",
                                           !.spawn_point = spawn_point]
                         ELSE [Raise(main, Get(st.exc)) EXCEPT !.spawn_point = spawn_point]
    /\ UNCHANGED <<factor_vars, driver_vars>>

\* finally: if world is not None
Finally ==
    /\ main.pc = "finally"
    /\ main' = [main EXCEPT !.pc = IF main.world THEN "autopilot_off" ELSE End(main)]
    /\ UNCHANGED <<world, carla>>
    /\ UNCHANGED <<factor_vars, driver_vars>>

\* world.set_ego_autopilot(False) (line 440)
SetEgoAutopilotOff ==
    /\ main.pc = "autopilot_off"
    /\ LET r == set_ego_autopilot(world, carla, FALSE)
       IN  /\ carla' = r.carla
           /\ main' = IF IsNone(r.exc) THEN [main EXCEPT !.pc = "destroy"]
                      ELSE [main EXCEPT !.pc = "raised", !.exc = r.exc]
    /\ UNCHANGED world
    /\ UNCHANGED <<factor_vars, driver_vars>>

\* world.destroy() (line 441)
Destroy ==
    /\ main.pc = "destroy"
    /\ LET st == destroy(world, carla)
       IN  /\ world' = st.world
           /\ carla' = st.carla
    /\ main' = [main EXCEPT !.pc = "free_run"]
    /\ UNCHANGED <<factor_vars, driver_vars>>

\* world.allow_free_run() (line 443)
AllowFreeRun ==
    /\ main.pc = "free_run"
    /\ carla' = [carla EXCEPT !.synchronous_mode = FALSE]
    /\ main' = [main EXCEPT !.pc = End(main)]
    /\ UNCHANGED world
    /\ UNCHANGED <<factor_vars, driver_vars>>

CollectorNext ==
    \/ ConstructWorld \/ Tick \/ ServerTick \/ Callback
    \/ ImuUpdate \/ GnssUpdate \/ SemanticCameraUpdate
    \/ BindWorld \/ SetEgoAutopilot \/ Loop \/ Interrupt \/ Restart
    \/ Finally \/ SetEgoAutopilotOff \/ Destroy \/ AllowFreeRun

CollectorSpec == CollectorInit /\ [][CollectorNext]_vars

\* ------------------------------------------------------------ state machine
NoAnswer == [in_junction |-> FALSE, into_junction |-> FALSE, markings |-> << >>]

\* whether error() on self reaches the extractor (lines 136 and 162)
Queries(self) == ~self.static \/ self._first_time

Init ==
    /\ extractor = None
    /\ f = None
    /\ ret = [op |-> "none", outcome |-> "ok", value |-> None]
    /\ ev = None
    /\ idx = -1
    /\ pos = "for"
    /\ sw_graph = NewGraph(init_idx)
    /\ call = NoCall
    /\ todo = << >>
    /\ prior_idx = << >>
    /\ pose_estimations = << >>
    /\ world = NoWorld
    /\ carla = NewCarla({})
    /\ main = NewMain("main", [sync_mode |-> TRUE, n_ticks |-> 0])

\* GeoLaneBoundaryFactor.set_expected_lane_extractor(extractor)
SetExtractor ==
    /\ extractor' = Some("ExpectedLaneExtractor")
    /\ UNCHANGED <<f, ret, ev>>
    /\ UNCHANGED <<driver_vars, collector_vars>>

\* GeoLaneBoundaryFactor(key, detected_marking, z, pose_uncert, px, config)
Construct ==
    /\ IsNone(f)
    /\ \E detected_marking \in Detections, config \in Configs :
          IF InitRaises(extractor)
          THEN /\ ret' = [op |-> "__init__", outcome |-> "RuntimeError", value |-> None]
               /\ UNCHANGED <<f>>
          ELSE /\ f' = Some(NewFactor(1, detected_marking, 0, "pose_uncert", Px, config))
               /\ ret' = [op |-> "__init__", outcome |-> "ok", value |-> None]
    /\ UNCHANGED <<extractor, ev>>
    /\ UNCHANGED <<driver_vars, collector_vars>>

\* one evaluation of error() by the solver
Error ==
    /\ ~IsNone(f)
    /\ \E pose \in Poses, answer \in Answers :
          /\ IF Queries(Get(f)) THEN TRUE ELSE answer = NoAnswer
          /\ \E r \in {error(Get(f), pose, answer)} :
                 /\ f' = Some(r.self)
                 /\ ret' = [op |-> "error", outcome |-> r.outcome, value |-> r.value]
                 /\ ev' = Some([ pose |-> pose,
                                 first |-> Get(f)._first_time,
                                 queried |-> r.queried,
                                 query |-> IF r.queried
                                           THEN Some([ location |->
                                                           get_fbumper_location(
                                                               <<pose.x, pose.y, Get(f).z>>,
                                                               <<0, 0, pose.theta>>, Get(f).px),
                                                       orientation |-> <<0, 0, pose.theta>> ])
                                           ELSE None,
                                 answer |-> IF r.queried THEN Some(answer) ELSE None,
                                 outcome |-> r.outcome,
                                 value |-> r.value,
                                 expected_coeffs_list |-> r.expected_coeffs_list,
                                 expected_type_list |-> r.expected_type_list,
                                 null_c0c1 |-> r.null_c0c1,
                                 gated |-> r.gated,
                                 W |-> r.W,
                                 asso_idx |-> r.asso_idx ])
    /\ UNCHANGED extractor
    /\ UNCHANGED <<driver_vars, collector_vars>>

\* one evaluation of jacobians() by the solver
Jacobians ==
    /\ ~IsNone(f)
    /\ LET r == jacobians(Get(f))
       IN  ret' = [op |-> "jacobians", outcome |-> r.outcome, value |-> r.value]
    /\ UNCHANGED <<extractor, f, ev>>
    /\ UNCHANGED <<driver_vars, collector_vars>>

\* a direct call of _get_pose_diff(location, orientation), at the origin
GetPoseDiff ==
    /\ ~IsNone(f)
    /\ \E pose \in {Origin} :
          LET r == _get_pose_diff(Get(f), <<pose.x, pose.y, Get(f).z>>, <<0, 0, pose.theta>>)
          IN  ret' = [op |-> "_get_pose_diff",
                      outcome |-> IF r.raised THEN "RuntimeError" ELSE "ok",
                      value |-> IF r.raised THEN None ELSE Some(r.diff)]
    /\ UNCHANGED <<extractor, f, ev>>
    /\ UNCHANGED <<driver_vars, collector_vars>>

Next == SetExtractor \/ Construct \/ Error \/ Jacobians \/ GetPoseDiff

Spec == Init /\ [][Next]_vars

\* ------------------------------------------------------ copies of the factor
\* a duplicate that keeps every attribute of its source
CopyKeepingMemory(self, cls_extractor) == [raised |-> FALSE, value |-> Some(self)]

\* GeoLaneBoundaryFactor.copy (lines 115-116): a new factor built by __init__
copy(self, cls_extractor) ==
    IF InitRaises(cls_extractor)
    THEN [raised |-> TRUE, value |-> None]
    ELSE [raised |-> FALSE,
          value |-> Some(NewFactor(self.key, self.detected_marking, self.z,
                                   self.pose_uncert, self.px, self.config))]

\* the solver copies the factor
Copy ==
    /\ ~IsNone(f)
    /\ \E r \in {copy(Get(f), extractor)} :
          ret' = [op |-> "copy", outcome |-> IF r.raised THEN "RuntimeError" ELSE "ok",
                  value |-> r.value]
    /\ UNCHANGED <<extractor, f, ev>>
    /\ UNCHANGED <<driver_vars, collector_vars>>

CopyNext == SetExtractor \/ Construct \/ Error \/ Jacobians \/ GetPoseDiff \/ Copy

CopySpec == Init /\ [][CopyNext]_vars

\* ---------------------------------------------------- the driver's time step
\* for idx, timestamp in enumerate(timestamp_seq), with the skipped indexes
NextTimestamp ==
    /\ pos = "for"
    /\ idx + 1 < MaxRecording
    /\ idx' = idx + 1
    /\ pos' = IF idx' < init_idx THEN "for" ELSE Body[1]
    /\ call' = NoCall
    /\ UNCHANGED <<sw_graph, todo, prior_idx>>
    /\ UNCHANGED <<factor_vars, collector_vars, pose_estimations>>

\* the recording ends; it holds more than init_idx entries (line 171)
EndOfRecording ==
    /\ pos = "for"
    /\ idx >= init_idx
    /\ pos' = "done"
    /\ UNCHANGED <<idx, sw_graph, call, todo, prior_idx>>
    /\ UNCHANGED <<factor_vars, collector_vars, pose_estimations>>

AddsPrior(i) == i = init_idx

AddsMotionAlways(i) == i >= init_idx

AddsMotion(i) == i > init_idx

WarmedUp(i) == i - init_idx >= WarmUp

\* one call, or none, on the graph manager
Step(calls, name, key, g, next) ==
    /\ sw_graph' = g
    /\ call' = IF calls THEN Call(name, key) ELSE call
    /\ pos' = Goto(next, g)

AddPriorFactor ==
    /\ pos = "prior"
    /\ IF AddsPrior(idx)
       THEN /\ Step(TRUE, "add_prior_factor", NoKey, add_prior_factor(sw_graph), After("prior"))
            /\ prior_idx' = Append(prior_idx, idx)
       ELSE /\ Step(FALSE, "add_prior_factor", NoKey, sw_graph, After("prior"))
            /\ UNCHANGED prior_idx
    /\ UNCHANGED <<idx, todo>>
    /\ UNCHANGED <<factor_vars, collector_vars, pose_estimations>>

AddCtrvBetweenFactor ==
    /\ pos = "ctrv"
    /\ IF AddsMotion(idx)
       THEN Step(TRUE, "add_ctrv_between_factor", NoKey,
                 add_ctrv_between_factor(sw_graph), After("ctrv"))
       ELSE Step(FALSE, "add_ctrv_between_factor", NoKey, sw_graph, After("pole"))
    /\ UNCHANGED <<idx, todo, prior_idx>>
    /\ UNCHANGED <<factor_vars, collector_vars, pose_estimations>>

AddGnssFactor ==
    /\ pos = "gnss"
    /\ Step(TRUE, "add_gnss_factor", NoKey, AddUnaryFactor(sw_graph, After("ctrv")), After("gnss"))
    /\ UNCHANGED <<idx, todo, prior_idx>>
    /\ UNCHANGED <<factor_vars, collector_vars, pose_estimations>>

AddRsStopFactor ==
    /\ pos = "rs_stop"
    /\ \E rs_stop_detection \in DetectionsAt(idx, {None, Some("stop")}) :
          IF ~IsNone(rs_stop_detection)
          THEN Step(TRUE, "add_rs_stop_factor", NoKey,
                    AddUnaryFactor(sw_graph, After("gnss")), After("rs_stop"))
          ELSE Step(FALSE, "add_rs_stop_factor", NoKey, sw_graph, After("rs_stop"))
    /\ UNCHANGED <<idx, todo, prior_idx>>
    /\ UNCHANGED <<factor_vars, collector_vars, pose_estimations>>

AddLaneFactor(next) ==
    /\ \E marking_detection \in DetectionsAt(idx, {None, Some("marking")}) :
          IF WarmedUp(idx) /\ ~IsNone(marking_detection)
          THEN Step(TRUE, "add_lane_factor", NoKey, AddUnaryFactor(sw_graph, "lane"), next)
          ELSE Step(FALSE, "add_lane_factor", NoKey, sw_graph, next)
    /\ UNCHANGED <<idx, todo, prior_idx>>
    /\ UNCHANGED <<factor_vars, collector_vars, pose_estimations>>

\* lane_detection.left_marking_detection
AddLeftLaneFactor ==
    /\ pos = "lane_left"
    /\ AddLaneFactor(After("lane_left"))

\* lane_detection.right_marking_detection
AddRightLaneFactor ==
    /\ pos = "lane_right"
    /\ AddLaneFactor(After("lane_right"))

RECURSIVE AddPoles(_, _)
AddPoles(g, in_range) ==
    IF in_range = << >> THEN g
    ELSE AddPoles(IF Head(in_range) THEN AddUnaryFactor(g, "pole") ELSE g, Tail(in_range))

AddPoleFactors ==
    /\ pos = "pole"
    /\ \E pole_detection \in DetectionsAt(idx, PoleDetections) :
          IF WarmedUp(idx) /\ ~IsNone(pole_detection)
             /\ \E i \in 1..Len(Get(pole_detection)) : Get(pole_detection)[i]
          THEN Step(TRUE, "add_pole_factor", NoKey,
                    AddPoles(sw_graph, Get(pole_detection)), After("pole"))
          ELSE Step(FALSE, "add_pole_factor", NoKey, sw_graph, After("pole"))
    /\ UNCHANGED <<idx, todo, prior_idx>>
    /\ UNCHANGED <<factor_vars, collector_vars, pose_estimations>>

SlideSkipped == FALSE

SlideCalled == TRUE

TryMoveSlidingWindowForward ==
    /\ pos = "slide"
    /\ IF SlideCalled
       THEN Step(TRUE, "try_move_sliding_window_forward", NoKey,
                 try_move_sliding_window_forward(sw_graph), After("slide"))
       ELSE Step(FALSE, "try_move_sliding_window_forward", NoKey, sw_graph, After("slide"))
    /\ UNCHANGED <<idx, todo, prior_idx>>
    /\ UNCHANGED <<factor_vars, collector_vars, pose_estimations>>

SolveOneStep ==
    /\ pos = "solve"
    /\ Step(TRUE, "solve_one_step", NoKey, solve_one_step(sw_graph), After("solve"))
    /\ UNCHANGED <<idx, todo, prior_idx>>
    /\ UNCHANGED <<factor_vars, collector_vars, pose_estimations>>

\* last_pose = sw_graph.last_optimized_se2 and last_se2 = sw_graph.last_optimized_se2
LastOptimizedSe2(next) ==
    /\ \E key \in {IF sw_graph.keys = << >> THEN NoKey ELSE Last(sw_graph.keys)} :
          Step(TRUE, "last_optimized_se2", key, Reads(sw_graph, key), next)
    /\ UNCHANGED <<idx, todo, prior_idx>>
    /\ UNCHANGED <<factor_vars, collector_vars>>

\* a list that holds the latest estimate only
KeepLatestOnly(estimations, last_pose) == <<last_pose>>

\* pose_estimations.append(last_pose) (line 318)
append(estimations, last_pose) == Append(estimations, last_pose)

RecordLastPose ==
    /\ pos = "last_pose"
    /\ LastOptimizedSe2(After("last_pose"))
    /\ pose_estimations' =
          IF sw_graph'.failed
          THEN pose_estimations
          ELSE append(pose_estimations,
                      [idx |-> idx, key |-> Last(sw_graph.keys), fresh |-> sw_graph.fresh])

\* for node_idx in sw_graph.get_idc_in_graph()
GetIdcInGraph ==
    /\ pos = "idc"
    /\ todo' = get_idc_in_graph(sw_graph)
    /\ Step(TRUE, "get_idc_in_graph", NoKey, sw_graph,
            IF todo' = << >> THEN After("cov") ELSE After("idc"))
    /\ UNCHANGED <<idx, prior_idx>>
    /\ UNCHANGED <<factor_vars, collector_vars, pose_estimations>>

GetResult ==
    /\ pos = "result"
    /\ Step(TRUE, "get_result", Head(todo), Reads(sw_graph, Head(todo)), After("result"))
    /\ UNCHANGED <<idx, todo, prior_idx>>
    /\ UNCHANGED <<factor_vars, collector_vars, pose_estimations>>

GetMarginalCovMatrix ==
    /\ pos = "cov"
    /\ todo' = Tail(todo)
    /\ Step(TRUE, "get_marignal_cov_matrix", Head(todo), Reads(sw_graph, Head(todo)),
            IF todo' = << >> THEN After("cov") ELSE After("idc"))
    /\ UNCHANGED <<idx, prior_idx>>
    /\ UNCHANGED <<factor_vars, collector_vars, pose_estimations>>

VisualizeLastPose ==
    /\ pos = "last_se2"
    /\ LastOptimizedSe2(After("last_se2"))
    /\ UNCHANGED pose_estimations

\* if idx >= end_idx: break
EndOfStep ==
    /\ pos = "end"
    /\ pos' = IF idx >= end_idx THEN "done" ELSE "for"
    /\ UNCHANGED <<idx, sw_graph, call, todo, prior_idx>>
    /\ UNCHANGED <<factor_vars, collector_vars, pose_estimations>>

DriverNext ==
    \/ NextTimestamp \/ EndOfRecording
    \/ AddPriorFactor \/ AddCtrvBetweenFactor \/ AddGnssFactor \/ AddRsStopFactor
    \/ AddLeftLaneFactor \/ AddRightLaneFactor \/ AddPoleFactors
    \/ TryMoveSlidingWindowForward \/ SolveOneStep
    \/ RecordLastPose \/ GetIdcInGraph \/ GetResult \/ GetMarginalCovMatrix
    \/ VisualizeLastPose \/ EndOfStep

DriverSpec == Init /\ [][DriverNext]_vars

\* the driver is a sequential program: it takes its next statement
DriverFairSpec == DriverSpec /\ WF_vars(DriverNext)

\* ------------------------------------------------- the line transform alone
MaxCoeff == 2       \* largest offset and slope of a line

Coeffs == (0 - MaxCoeff)..MaxCoeff
Lines == { <<c0, c1>> : c0 \in Coeffs, c1 \in Coeffs }
PxValues == 0..(Px + 1)
\* pose differences whose rotation is a whole half turn
HalfTurnDiffs == { <<dx, dy, dtheta>> : dx \in {0, 1}, dy \in {0, 1}, dtheta \in {0, 2} }

LineInit ==
    /\ extractor = None
    /\ f = None
    /\ ev = None
    /\ \E px \in PxValues, line \in Lines :
          ret = [op |-> "line", outcome |-> "ok", value |-> [px |-> px, line |-> line]]
    /\ idx = -1
    /\ pos = "for"
    /\ sw_graph = NewGraph(init_idx)
    /\ call = NoCall
    /\ todo = << >>
    /\ prior_idx = << >>
    /\ pose_estimations = << >>
    /\ world = NoWorld
    /\ carla = NewCarla({})
    /\ main = NewMain("main", [sync_mode |-> TRUE, n_ticks |-> 0])

\* normal_form = compute_normal_form_line_coeffs(self.px, c0, c1) (line 140)
ComputeNormalForm ==
    /\ ret.op = "line"
    /\ ret' = [ op |-> "compute_normal_form_line_coeffs",
                outcome |-> "ok",
                value |-> [ px |-> ret.value.px,
                            line |-> ret.value.line,
                            normal_form |->
                                compute_normal_form_line_coeffs(ret.value.px,
                                                                Fin(ret.value.line[1]),
                                                                Fin(ret.value.line[2])) ] ]
    /\ UNCHANGED <<extractor, f, ev>>
    /\ UNCHANGED <<driver_vars, collector_vars>>

\* self._compute_expected_c0c1(normal_form, pose_diff) (line 152)
ComputeExpectedC0C1 ==
    /\ ret.op = "compute_normal_form_line_coeffs"
    /\ \E pose_diff \in HalfTurnDiffs, detected_marking \in Detections, config \in Configs :
          ret' = [ op |-> "_compute_expected_c0c1",
                   outcome |-> "ok",
                   value |-> [ px |-> ret.value.px,
                               line |-> ret.value.line,
                               pose_diff |-> pose_diff,
                               c0c1 |-> _compute_expected_c0c1(
                                            NewFactor(1, detected_marking, 0, "pose_uncert",
                                                      ret.value.px, config),
                                            ret.value.normal_form, pose_diff) ] ]
    /\ UNCHANGED <<extractor, f, ev>>
    /\ UNCHANGED <<driver_vars, collector_vars>>

LineNext == ComputeNormalForm \/ ComputeExpectedC0C1

LineSpec == LineInit /\ [][LineNext]_vars

RepeatingLists == UNION { [1..k -> Markings] : k \in 1..MaxFeat }
\* prior probabilities of the null hypothesis that make posteriors meet
TieProbNulls == {Rat(1, 10), Rat(1, 5), Rat(1, 3)}

AssocInit ==
    /\ extractor = None
    /\ f = None
    /\ ev = None
    /\ \E detected_marking \in Detections, prob_null \in TieProbNulls,
          markings \in RepeatingLists :
          ret = [ op |-> "expected", outcome |-> "ok",
                  value |-> [ detected_marking |-> detected_marking,
                              prob_null |-> prob_null,
                              markings |-> AsList(markings) ] ]
    /\ idx = -1
    /\ pos = "for"
    /\ sw_graph = NewGraph(init_idx)
    /\ call = NoCall
    /\ todo = << >>
    /\ prior_idx = << >>
    /\ pose_estimations = << >>
    /\ world = NoWorld
    /\ carla = NewCarla({})
    /\ main = NewMain("main", [sync_mode |-> TRUE, n_ticks |-> 0])

\* lines 187-244 for a dynamic factor at its initial pose
AssociationOf(self, markings) ==
    LET null == NullHypothesis(self, <<0, 0, 0>>)
        cand == Gated(CoeffsOf(markings), TypesOf(markings),
                      self.detected_marking.coeffs, self.detected_marking.type)
        as == Association(self, CoeffsOf(markings), TypesOf(markings), null)
    IN  [ gated |-> as.gated,
          W |-> as.W,
          M |-> IF Len(cand) > 0 THEN Posteriors(Tail(as.W), cand, null.M) ELSE << >>,
          asso_idx |-> as.asso_idx,
          _null_hypo |-> as.self._null_hypo ]

Associate ==
    /\ ret.op = "expected"
    /\ ret' = [ op |-> "association", outcome |-> "ok",
                value |-> ret.value @@
                    AssociationOf(
                        NewFactor(1, ret.value.detected_marking, 0, "pose_uncert", Px,
                                  [ static |-> FALSE, prob_null |-> ret.value.prob_null,
                                    semantic_gate_threshold |-> None ]),
                        ret.value.markings) ]
    /\ UNCHANGED <<extractor, f, ev>>
    /\ UNCHANGED <<driver_vars, collector_vars>>

AssocNext == Associate

AssocSpec == AssocInit /\ [][AssocNext]_vars

\* C19: the hypothesis selected is one of maximal combined posterior; among
\* hypotheses of equal maximal posterior null is preferred, and otherwise
\* the candidate that comes first in the extractor's order.
C19_SelectionRule ==
    ret.op = "association" /\ ~IsNone(ret.value.asso_idx) =>
        LET M == ret.value.M
            sel == Get(ret.value.asso_idx) + 1
        IN  /\ sel \in 1..Len(M)
            /\ \A j \in 1..Len(M) : ~RLess(M[sel], M[j])
            /\ \A j \in 1..(sel - 1) : RLess(M[j], M[sel])
            /\ \A j \in 1..(Len(ret.value.gated) - 1) :
                   ret.value.gated[j] < ret.value.gated[j + 1]
            /\ ret.value._null_hypo = (sel = 1)

\* null and two candidates have the same posterior, and null is selected
C19_Witness ==
    /\ ret.op = "association"
    /\ ret.value.asso_idx = Some(0)
    /\ Len(ret.value.M) = 3
    /\ REq(ret.value.M[1], ret.value.M[2])
    /\ REq(ret.value.M[2], ret.value.M[3])

\* ------------------------------------------------------ driver properties
FactorCalls ==
    { "add_prior_factor", "add_ctrv_between_factor", "add_gnss_factor",
      "add_rs_stop_factor", "add_lane_factor", "add_pole_factor" }
KeyedReads == {"get_result", "get_marignal_cov_matrix"}
ResultReads == {"last_optimized_se2", "get_idc_in_graph"} \cup KeyedReads

\* the phase of a time step a call belongs to
Phase(name) ==
    CASE name = "none" -> 0
      [] name \in FactorCalls -> 1
      [] name = "try_move_sliding_window_forward" -> 2
      [] name = "solve_one_step" -> 3
      [] name \in ResultReads -> 4

TypesIn(g) == { g.factors[i].type : i \in 1..Len(g.factors) }

\* C11: in every processed time step the factors of the step are added
\* first (a prior or a motion factor among them), then the window is moved,
\* then the graph is solved, and only then are results read: a result is
\* read only while nothing was added since the last solve, an estimate or a
\* covariance only for a key get_idc_in_graph reported after that solve, and
\* the step ends having read results.
C11_StepCallOrder ==
    /\ [](/\ call.name \in ResultReads => sw_graph.fresh /\ ~sw_graph.failed
          /\ call.name \in KeyedReads =>
                 /\ call.key \in KeysOf(get_idc_in_graph(sw_graph))
                 /\ call.key \in sw_graph.solved
          /\ pos \in {"end", "done"} => call.name = "last_optimized_se2"
          /\ pos # "aborted")
    /\ [][idx' = idx /\ call' # call =>
             /\ Phase(call'.name) >= Phase(call.name)
             /\ Phase(call.name) = 0 =>
                    call'.name \in {"add_prior_factor", "add_ctrv_between_factor"}
             /\ Phase(call'.name) = 2 => Phase(call.name) = 1
             /\ Phase(call'.name) = 3 => Phase(call.name) = 2
             /\ Phase(call'.name) = 4 => Phase(call.name) >= 3]_vars

\* a covariance is read in a step that added every kind of factor
C11_Witness ==
    /\ call.name = "get_marignal_cov_matrix"
    /\ call.key = idx
    /\ {"ctrv", "gnss", "rs_stop", "lane", "pole", "marginal"} \subseteq TypesIn(sw_graph)
    /\ \E i \in 1..Len(sw_graph.factors) :
          sw_graph.factors[i] = Factor("pole", {idx})

\* C12: over a whole run the prior factor is added exactly once, at the
\* first processed step, and every CTRV between factor is added at a
\* strictly later step, when the graph holds the prior's pose variable.
C12_PriorBeforeMotion ==
    /\ [](/\ Len(prior_idx) <= 1
          /\ prior_idx # << >> => prior_idx[1] = init_idx
          /\ pos \notin {"for", "prior"} \/ idx > init_idx => Len(prior_idx) = 1)
    /\ [][call'.name = "add_ctrv_between_factor" /\ call' # call =>
             /\ Len(prior_idx) = 1
             /\ idx > prior_idx[1]
             /\ sw_graph.keys # << >>
             /\ ~sw_graph'.failed]_vars

\* the first motion factor has been added, one step after the prior
C12_Witness ==
    /\ call.name = "add_ctrv_between_factor"
    /\ prior_idx = <<init_idx>>
    /\ idx = init_idx + 1
    /\ sw_graph.keys = <<init_idx, init_idx + 1>>

\* the window has been moved in the step of index idx
WindowMoved ==
    pos \notin {"prior", "ctrv", "gnss", "rs_stop", "lane_left", "lane_right", "pole", "slide"}

\* the pose variables added by motion factors so far
MotionFactorsAdded == IF idx > init_idx THEN idx - init_idx ELSE 0

\* C13: with max window size N, once N + 5 or more pose variables have been
\* added by motion factors and the window has been moved in each step,
\* exactly N pose variables are active, their keys are consecutive and
\* increasing up to the newest, and every factor left in the graph
\* references active keys only.
C13_WindowSlide ==
    WindowMoved /\ MotionFactorsAdded >= max_window_size + 5 =>
        /\ Len(sw_graph.keys) = max_window_size
        /\ \A i \in 1..(Len(sw_graph.keys) - 1) : sw_graph.keys[i + 1] = sw_graph.keys[i] + 1
        /\ Last(sw_graph.keys) = idx
        /\ \A i \in 1..Len(sw_graph.factors) : References(sw_graph.factors[i], sw_graph.keys)

\* the window has just been moved after the motion factor number N + 5
C13_Witness ==
    /\ call.name = "try_move_sliding_window_forward"
    /\ MotionFactorsAdded = max_window_size + 5
    /\ Len(sw_graph.keys) = max_window_size
    /\ sw_graph.keys[1] = idx - max_window_size + 1
    /\ Factor("marginal", {sw_graph.keys[1]}) \in { sw_graph.factors[i] : i \in 1..Len(sw_graph.factors) }

\* ------------------------------------------------------------- properties
\* the factor, and its last error() evaluation
Evaluated == ~IsNone(ev)
F == Get(f)
E == Get(ev)
Det == F.detected_marking

\* the null hypothesis was selected by the last evaluation: null flag set,
\* expected coefficients = null prediction, residual = (null - measured) * 1e-2
NullResidual == Residual(VSub(Get(E.null_c0c1), Det.coeffs), Rat(1, 100))
NullSelected ==
    /\ F._null_hypo
    /\ F.expected_coeffs = E.null_c0c1
    /\ E.value = Some(NullResidual)

\* the last evaluation selected a matched hypothesis
MatchSelected == Evaluated /\ ~IsNone(E.asso_idx) /\ Get(E.asso_idx) > 0

\* the position, in the list of expected markings, of the selected one
SelectedIndex == E.gated[Get(E.asso_idx)]

\* C1: the hypothesis an evaluation selects is never an expected marking whose
\* semantic compatibility with the detection is at most the gate 0.9: the
\* selected marking has the type of the detection, and its coefficients are
\* the expected coefficients the factor keeps.
C1_GateEnforcement ==
    MatchSelected =>
        /\ RLess(Rat(9, 10),
                 _conditional_prob_type(Get(E.expected_type_list)[SelectedIndex], Det.type))
        /\ Get(E.expected_type_list)[SelectedIndex] = Det.type
        /\ ~F._null_hypo
        /\ F.expected_coeffs = Some(E.expected_coeffs_list[SelectedIndex])

\* a matched hypothesis is selected although a marking of another type lies
\* exactly on the detection
C1_Witness ==
    /\ MatchSelected
    /\ \E j \in 1..Len(E.expected_coeffs_list) :
          /\ Get(E.expected_type_list)[j] # Det.type
          /\ E.expected_coeffs_list[j] = Det.coeffs

\* C2: whenever the extractor reports in_junction or into_junction for the
\* queried pose and error() returns, the null hypothesis is selected.
C2_JunctionFallback ==
    ( /\ Evaluated
      /\ E.queried
      /\ E.outcome = "ok"
      /\ Get(E.answer).in_junction \/ Get(E.answer).into_junction )
    => NullSelected

\* C3: whenever the list of expected markings of an evaluation is empty,
\* error() returns and selects the null hypothesis, in static and in dynamic
\* mode.
C3_EmptyMapFallback ==
    (Evaluated /\ E.expected_coeffs_list = << >>) => (E.outcome = "ok" /\ NullSelected)

\* a later evaluation of a static factor whose snapshot is empty
C3_Witness ==
    /\ Evaluated
    /\ F.static
    /\ ~E.first
    /\ E.expected_coeffs_list = << >>
    /\ NullSelected

\* C4: when the extractor returns markings and none has the type of the
\* detection, error() raises nothing and selects the null hypothesis.
C4_NoCandidateForcesNull ==
    ( /\ Evaluated
      /\ E.queried
      /\ Get(E.answer).markings # << >>
      /\ \A i \in 1..Len(Get(E.answer).markings) :
            Get(E.answer).markings[i].type # Det.type )
    => (E.outcome = "ok" /\ NullSelected)

\* the snapshot of a static factor: the normal forms and the pose they are in
SnapshotOf(self) == <<self._init_normal_forms, self._init_tform, self._init_orientation>>

\* C5: the first evaluation of a static factor stores the normal forms of the
\* markings the extractor returned and the pose of that evaluation, and no
\* later evaluation changes them.
C5_SnapshotWriteOnce ==
    /\ []((Evaluated /\ F.static /\ E.first) =>
            SnapshotOf(F) =
                << Some(NormalForms(F.px, CoeffsOf(Get(E.answer).markings))),
                   Some(from_conventional(<<E.pose.x, E.pose.y, F.z>>,
                                          <<0, 0, E.pose.theta>>)),
                   Some(<<0, 0, E.pose.theta>>) >>)
    /\ [][(Evaluated /\ F.static) => SnapshotOf(Get(f')) = SnapshotOf(F)]_vars

\* a static factor with a snapshot of at least one marking, evaluated again
\* at another pose than the one of the snapshot
C5_Witness ==
    /\ Evaluated
    /\ F.static
    /\ ~E.first
    /\ F._init_normal_forms # Some(<< >>)
    /\ Get(F._init_tform) #
           from_conventional(<<E.pose.x, E.pose.y, F.z>>, <<0, 0, E.pose.theta>>)

\* C6: in static mode, every evaluation with at least one expected marking
\* runs the data association and returns a residual without raising.
C6_AssociationInBothModes ==
    (Evaluated /\ F.static /\ E.expected_coeffs_list # << >>) => E.outcome = "ok"

C9_ConstructionNeedsExtractor ==
    /\ [](~IsNone(f) => ~IsNone(extractor))
    /\ [][ /\ (IsNone(f) /\ ~IsNone(f')) =>
                (~IsNone(extractor) /\ ret'.op = "__init__" /\ ret'.outcome = "ok")
           /\ (ret'.op = "__init__" /\ (ret.op # "__init__" \/ ret.outcome # ret'.outcome)) =>
                IF IsNone(extractor)
                THEN ret'.outcome = "RuntimeError" /\ IsNone(f')
                ELSE ret'.outcome = "ok" /\ ~IsNone(f') ]_vars

\* a construction has raised RuntimeError and there is no factor
C9_Witness ==
    /\ ret.op = "__init__"
    /\ ret.outcome = "RuntimeError"
    /\ IsNone(extractor)
    /\ IsNone(f)

\* C10: a direct call of _get_pose_diff raises RuntimeError, and returns
\* nothing, exactly when no initial pose is recorded; an error() evaluation
\* records the initial pose and never raises RuntimeError.
C10_PoseDiffPrecondition ==
    /\ (~IsNone(f) /\ ret.op = "_get_pose_diff") =>
          /\ ret.outcome = "RuntimeError" <=> IsNone(F._init_tform)
          /\ ret.outcome = "RuntimeError" <=> IsNone(ret.value)
          /\ IsNone(F._init_tform) <=> ~Evaluated
    /\ Evaluated =>
          /\ ~IsNone(F._init_tform)
          /\ ~IsNone(F._init_orientation)
          /\ E.outcome # "RuntimeError"

\* _get_pose_diff called on a factor that was never evaluated
C10_Witness ==
    /\ ~IsNone(f)
    /\ ~Evaluated
    /\ ret.op = "_get_pose_diff"
    /\ ret.outcome = "RuntimeError"

\* Scenario A: the extractor answered with the one marking (T, 0, 0) outside
\* junctions, the detection is (T, 0, 0) and prob_null is 0.1
ScenarioA ==
    /\ Evaluated
    /\ E.queried
    /\ Get(E.answer) = [ in_junction |-> FALSE, into_junction |-> FALSE,
                         markings |-> <<[type |-> "Solid", coeffs |-> <<Fin(0), Fin(0)>>]>> ]
    /\ Det = [type |-> "Solid", coeffs |-> <<Fin(0), Fin(0)>>]
    /\ REq(F.prob_null, Rat(1, 10))

\* C15: in scenario A the evaluation selects the matched marking, the null
\* flag is false and the residual before scaling is (0, 0).
C15_UnambiguousMatch ==
    ScenarioA =>
        /\ E.outcome = "ok"
        /\ MatchSelected
        /\ ~F._null_hypo
        /\ Get(E.value).e = <<Fin(0), Fin(0)>>


\* the last evaluation ran the data association
AssociationRan == Evaluated /\ E.outcome = "ok" /\ ~IsNone(E.asso_idx)

\* the expected markings whose compatibility with the detection exceeds gate
PassingUnder(gate) ==
    SelectSeq(AsList([i \in 1..Len(E.expected_coeffs_list) |-> i]),
              LAMBDA i : RLess(gate, _conditional_prob_type(Get(E.expected_type_list)[i],
                                                             Det.type)))

\* the threshold a configuration asks for
ConfiguredGate(config) ==
    IF IsNone(config.semantic_gate_threshold) THEN Rat(9, 10)
    ELSE Get(config.semantic_gate_threshold)

JacobiansAfterEvaluation == ret.op = "jacobians" /\ Evaluated /\ E.outcome = "ok"

\* the coefficients of the hypothesis the last evaluation selected
SelectedCoeffs ==
    IF MatchSelected THEN E.expected_coeffs_list[SelectedIndex] ELSE Get(E.null_c0c1)

\* C17: a jacobians() call after an evaluation that returned takes the
\* Jacobian at the expected coefficients of the hypothesis that evaluation
\* selected and multiplies it by the multiplier of the residual that
\* evaluation returned: the squared weight for a match, 0.01 for null.
C17_JacobianFollowsResidual ==
    JacobiansAfterEvaluation =>
        /\ ret.outcome = "ok"
        /\ Get(ret.value).H = compute_H(F.px, SelectedCoeffs[1], SelectedCoeffs[2])
        /\ REq(Get(ret.value).k, Get(E.value).k)
        /\ REq(Get(ret.value).k,
               IF MatchSelected
               THEN RMul(E.W[Get(E.asso_idx) + 1], E.W[Get(E.asso_idx) + 1])
               ELSE Rat(1, 100))

\* the Jacobian of a null selection made by the posterior, with a squared
\* weight other than 0.01 left in _scale
C17_Witness ==
    /\ JacobiansAfterEvaluation
    /\ E.asso_idx = Some(0)
    /\ ~REq(F._scale, Rat(1, 100))
    /\ REq(Get(ret.value).k, Rat(1, 100))


\* the last evaluation returned with the null hypothesis selected
NullWon == Evaluated /\ E.outcome = "ok" /\ F._null_hypo

\* C18: whenever an evaluation selects the null hypothesis, by whichever
\* way, the residual it returns is (null prediction - measurement)
\* multiplied by 0.01 and by nothing else: neither the null weight nor its
\* square enters it.
C18_NullResidualScaling ==
    NullWon =>
        /\ Get(E.value).e = VSub(Get(E.null_c0c1), Det.coeffs)
        /\ REq(Get(E.value).k, Rat(1, 100))
        /\ F.expected_coeffs = E.null_c0c1

\* null is selected for its posterior, with a null weight below 1
C18_Witness ==
    /\ NullWon
    /\ E.asso_idx = Some(0)
    /\ RLess(E.W[1], Rat(1, 1))
    /\ Get(E.value).e # <<Fin(0), Fin(0)>>
    /\ REq(Get(E.value).k, Rat(1, 100))


\* the last evaluation computed the weights of line 230 and 232
Weighed == AssociationRan /\ E.W # << >>

FromSnapshot ==
    LET pose_diff == _get_pose_diff(F, <<E.pose.x, E.pose.y, F.z>>, <<0, 0, E.pose.theta>>)
        forms == Get(F._init_normal_forms)
    IN  AsList([i \in 1..Len(forms) |-> _compute_expected_c0c1(F, forms[i], pose_diff.diff)])

\* C21: a static factor queries the extractor on its first evaluation and
\* on no later one; every later evaluation takes its expected coefficients
\* from the snapshot and the pose difference to the recorded initial pose.
C21_StaticQueriesOnce ==
    /\ []((Evaluated /\ F.static) =>
            /\ E.queried = E.first
            /\ ~F._first_time
            /\ ~E.first => /\ IsNone(E.answer)
                           /\ E.expected_coeffs_list = FromSnapshot)
    /\ [][(Evaluated /\ F.static /\ ev' # ev) =>
             ~Get(ev').queried /\ ~Get(ev').first]_vars

\* a static factor evaluated again, away from the pose of its snapshot, with
\* two markings taken from the snapshot and no query
C21_Witness ==
    /\ Evaluated
    /\ F.static
    /\ ~E.first
    /\ ~E.queried
    /\ Len(E.expected_coeffs_list) = 2
    /\ E.pose = [x |-> 1, y |-> 0, theta |-> 0]


\* C22: every evaluation of a dynamic factor queries the extractor, at the
\* point px ahead of the evaluated pose along its heading, and its expected
\* coefficients and types are exactly those of the markings that query
\* returned.
C22_DynamicRequeries ==
    /\ []((Evaluated /\ ~F.static) =>
            /\ E.queried
            /\ E.query = Some([ location |-> << E.pose.x + F.px * Cos(E.pose.theta),
                                                E.pose.y + F.px * Sin(E.pose.theta), F.z >>,
                                orientation |-> <<0, 0, E.pose.theta>> ])
            /\ ~IsNone(E.answer)
            /\ F.me_format_expected_markings = Some(Get(E.answer).markings)
            /\ E.expected_coeffs_list = CoeffsOf(Get(E.answer).markings)
            /\ E.expected_type_list = Some(TypesOf(Get(E.answer).markings)))
    /\ [][(Evaluated /\ ~F.static /\ ev' # ev) => Get(ev').queried]_vars

\* a dynamic factor evaluated at a pose turned by a quarter, with two
\* markings returned by the query ahead of it
C22_Witness ==
    /\ Evaluated
    /\ ~F.static
    /\ ~IsNone(F._init_tform)
    /\ E.pose = [x |-> 0, y |-> 0, theta |-> 1]
    /\ E.query = Some([location |-> <<0, F.px, F.z>>, orientation |-> <<0, 0, 1>>])
    /\ Len(E.expected_coeffs_list) = 2


\* the factor of the last evaluation as its constructor made it
AsConstructed == NewFactor(F.key, F.detected_marking, F.z, F.pose_uncert, F.px, F.config)

\* the last evaluation, made by a factor that was never evaluated before
FirstEvaluation == error(AsConstructed, E.pose, Get(E.answer))

\* C23: what a dynamic factor produces for a pose and an extractor answer
\* (residual, selected hypothesis, null flag, expected coefficients and
\* Jacobian) is what a never evaluated factor produces for them: it does not
\* depend on which poses were evaluated before, nor on how often.
C23_OrderIndependence ==
    (Evaluated /\ ~F.static) =>
        /\ E.outcome = FirstEvaluation.outcome
        /\ E.value = FirstEvaluation.value
        /\ E.asso_idx = FirstEvaluation.asso_idx
        /\ E.gated = FirstEvaluation.gated
        /\ F._null_hypo = FirstEvaluation.self._null_hypo
        /\ F.expected_coeffs = FirstEvaluation.self.expected_coeffs
        /\ jacobians(F) = jacobians(FirstEvaluation.self)

\* a dynamic factor selects null without an association, at a turned pose,
\* after an earlier evaluation left the squared weight of a match in _scale
C23_Witness ==
    /\ Evaluated
    /\ ~F.static
    /\ E.outcome = "ok"
    /\ IsNone(E.asso_idx)
    /\ ~REq(F._scale, Rat(1, 1))
    /\ E.pose = [x |-> 0, y |-> 0, theta |-> 1]


\* the measurement payload and the configuration of a factor
PayloadOf(self) ==
    [ key |-> self.key, detected_marking |-> self.detected_marking, z |-> self.z,
      pose_uncert |-> self.pose_uncert, px |-> self.px, config |-> self.config,
      noise_cov |-> self.noise_cov, prob_null |-> self.prob_null, static |-> self.static ]

\* C24: no call of error() or jacobians() changes the measurement payload or
\* the configuration of the factor (key, detection and its type, z, pose
\* uncertainty, px, noise covariance, prob_null, static flag, config);
\* jacobians() changes no field at all.
C24_EvaluationFrame ==
    /\ [](~IsNone(f) => PayloadOf(F) = PayloadOf(AsConstructed))
    /\ [][~IsNone(f) => /\ ~IsNone(f')
                        /\ PayloadOf(Get(f')) = PayloadOf(F)
                        /\ ret'.op = "jacobians" => f' = f]_vars

\* an evaluation has written every field of the association memory of a
\* static factor, and a Jacobian was taken afterwards
C24_Witness ==
    /\ Evaluated
    /\ ret.op = "jacobians"
    /\ F.static
    /\ ~F._first_time
    /\ F._null_hypo
    /\ ~IsNone(F._init_tform)
    /\ ~IsNone(F._init_normal_forms)
    /\ ~IsNone(F.expected_coeffs)
    /\ ~IsNone(F.me_format_expected_markings)
    /\ PayloadOf(F) = PayloadOf(AsConstructed)


\* ------------------------------------------------- data collector properties
\* the sensor object of the given name before and after a step, when both exist
Held(name) == ~IsNone(world[name])
Sensor(name) == Get(world[name])
InStepForward == {"tick", "imu", "gnss", "semantic_camera"}

\* timestamp and data of the sensor are those of one event of the simulator
FromOneEvent(name) ==
    \/ Sensor(name).timestamp = 0 /\ Sensor(name).data = None
    \/ Sensor(name).data = Some(Event(name, Sensor(name).timestamp).data)

\* the step took the oldest event out of the sensor's queue into its fields
ConsumedOne(name) ==
    /\ Held(name) /\ Held(name)'
    /\ Sensor(name)._queue # << >>
    /\ Sensor(name)'._queue = Tail(Sensor(name)._queue)
    /\ Sensor(name)'.timestamp = Head(Sensor(name)._queue).timestamp
    /\ Sensor(name)'.data = Some(Head(Sensor(name)._queue).data)

\* the step left the sensor's fields alone and at most appended to its queue
OnlyEnqueued(name) ==
    /\ Sensor(name)'.timestamp = Sensor(name).timestamp
    /\ Sensor(name)'.data = Sensor(name).data
    /\ \/ Sensor(name)'._queue = Sensor(name)._queue
       \/ /\ Len(Sensor(name)'._queue) = Len(Sensor(name)._queue) + 1
          /\ SubSeq(Sensor(name)'._queue, 1, Len(Sensor(name)._queue)) = Sensor(name)._queue

SameSensor(name) ==
    Held(name) /\ Held(name)' /\ Sensor(name)'.sensor = Sensor(name).sensor

\* step_forward moves on, without an exception, from one of its statements
Advances == main.pc \in InStepForward /\ main'.pc # main.pc /\ main'.exc = main.exc

\* C25: under every interleaving of the sensor callbacks with the main loop,
\* timestamp and data of a sensor come from one and the same event; a callback
\* only enqueues; update() takes exactly the oldest queued event and runs only
\* when one is queued; and step_forward returns only from the update of the
\* semantic camera, which follows those of the IMU and of the GNSS, each of
\* which has consumed one event.
C25_SensorHandOff ==
    /\ [](\A name \in SensorNames : Held(name) => FromOneEvent(name))
    /\ [][ /\ \A name \in SensorNames :
                SameSensor(name) =>
                    \/ OnlyEnqueued(name)
                    \/ main.pc = name /\ ConsumedOne(name)
           /\ Advances =>
                \/ main.pc = "tick" /\ main'.pc = "imu"
                \/ main.pc = "imu" /\ main'.pc = "gnss" /\ ConsumedOne("imu")
                \/ main.pc = "gnss" /\ main'.pc = "semantic_camera" /\ ConsumedOne("gnss")
                \/ main.pc = "semantic_camera" /\ main'.pc = main.ret
                   /\ ConsumedOne("semantic_camera")
           /\ (main'.pc # main.pc /\ main'.pc \in {"constructed", "loop", "restarted"})
                => main.pc \in {"semantic_camera", "autopilot"} ]_vars

\* step_forward has returned in the loop of main() while the simulator runs
\* freely: every sensor holds the event of a frame older than the simulator's
\* latest, and a callback has queued a further event in the meantime
C25_Witness ==
    /\ main.pc = "loop" /\ main.n = 1
    /\ ~carla.synchronous_mode
    /\ \A name \in SensorNames : Held(name) /\ Sensor(name).timestamp >= 1
    /\ Sensor("semantic_camera").timestamp < carla.frame
    /\ Len(Sensor("gnss")._queue) >= 1

\* a call of restart with no spawn point, on a world that holds a vehicle,
\* has run to its call of step_forward or to an exception of its own
RestartedInPlace ==
    /\ main.pc = "restart" /\ main'.pc # "restart"
    /\ ~IsNone(world.ego_veh)
    /\ IsNone(main'.spawn_point)
    /\ main'.exc # Some("KeyboardInterrupt")

\* C26: World.restart called while an ego vehicle exists and with no spawn
\* point raises nothing, destroys the actors spawned before, respawns the ego
\* vehicle at the old vehicle's transform raised by 2 m with roll and pitch 0,
\* and creates the three sensors anew.
C26_RespawnOnRestart ==
    [][ RestartedInPlace =>
          /\ IsNone(main'.exc)
          /\ ActorsOf(world) \cap carla'.actors = {}
          /\ ~IsNone(world'.ego_veh)
          /\ Get(world'.ego_veh).transform = Lifted(Get(world.ego_veh).transform)
          /\ \A name \in SensorNames :
                /\ Held(name)'
                /\ Sensor(name)' = NewSensor(Sensor(name)'.sensor)
                /\ Sensor(name)'.sensor \in carla'.actors ]_vars

\* main() has bound its local world to a constructed World
WorldConstructed == main.script = "main" /\ main.world
Ended == main.pc \in {"done", "raised"}

\* C27: once main() has constructed its World, it ends, normally or by an
\* exception out of the simulation loop, only after it has disabled the
\* autopilot, then destroyed the ego vehicle and the three sensors and dropped
\* the four references, then put the simulator back into free run, in that
\* order, and nothing else comes between leaving the try block and these.
C27_CleanupAlwaysRuns ==
    /\ []( (WorldConstructed /\ Ended) =>
              /\ ~carla.autopilot
              /\ world = NoWorld
              /\ carla.actors = {}
              /\ ~carla.synchronous_mode )
    /\ [][ (main.script = "main" /\ main'.pc # main.pc) =>
              /\ (main.pc \in TryBlock /\ main'.pc \notin TryBlock) => main'.pc = "finally"
              /\ (main.pc = "finally" /\ main.world) => main'.pc = "autopilot_off"
              /\ main.pc = "autopilot_off" =>
                    /\ main'.pc = "destroy" /\ ~carla'.autopilot
                    /\ world' = world /\ world # NoWorld
              /\ main.pc = "destroy" =>
                    /\ main'.pc = "free_run"
                    /\ world' = NoWorld /\ carla'.actors = {}
                    /\ carla'.synchronous_mode = carla.synchronous_mode
              /\ main.pc = "free_run" => Ended' /\ ~carla'.synchronous_mode
              /\ (Ended' /\ main.world) => main.pc = "free_run" ]_vars

\* an exception has interrupted the second step of the simulation loop, run in
\* synchronous mode with the autopilot on, and main() has ended cleaned up
C27_Witness ==
    /\ WorldConstructed /\ main.pc = "raised"
    /\ main.exc = Some("KeyboardInterrupt")
    /\ main.config.sync_mode /\ main.n = 1 /\ main.ret = "loop"
    /\ carla.frame = 2
    /\ world = NoWorld /\ carla.actors = {}
    /\ ~carla.autopilot /\ ~carla.synchronous_mode

\* the last operation was a copy, and the factor it returned
Copied == ret.op = "copy" /\ ret.outcome = "ok"
TheCopy == Get(ret.value)

\* the answers the extractor may give the copy at the pose of the source's
\* last evaluation: the one the source got there, or any if it did not ask
CopyAnswers == IF IsNone(E.answer) THEN Answers ELSE {Get(E.answer)}

\* the copy evaluated for its first time, at the pose of the source's last
\* evaluation
CopyEvaluated(answer) == error(TheCopy, E.pose, answer)

\* C28: in whatever state the source factor is, copy() returns a factor with
\* the source's key, detection, z, pose uncertainty, px and config and with
\* the association memory of a new factor (first-time flag set, no initial
\* pose, no snapshot, no expected coefficients, scale 1, null flag clear); a
\* static copy takes its own snapshot and initial pose on its own first
\* evaluation; the source is left as it was.
C28_CopyIsUninitialised ==
    /\ [](Copied =>
            /\ PayloadOf(TheCopy) = PayloadOf(F)
            /\ TheCopy._first_time
            /\ IsNone(TheCopy._init_tform) /\ IsNone(TheCopy._init_orientation)
            /\ IsNone(TheCopy._init_normal_forms)
            /\ IsNone(TheCopy.expected_coeffs)
            /\ IsNone(TheCopy.me_format_expected_markings)
            /\ ~TheCopy.in_junction /\ ~TheCopy.into_junction
            /\ REq(TheCopy._scale, Rat(1, 1))
            /\ ~TheCopy._null_hypo
            /\ (TheCopy.static /\ Evaluated) =>
                  \A answer \in CopyAnswers :
                     \A r \in {CopyEvaluated(answer)} :
                        /\ r.queried
                        /\ ~r.self._first_time
                        /\ r.self._init_normal_forms
                             = Some(NormalForms(F.px, CoeffsOf(answer.markings)))
                        /\ r.self._init_orientation = Some(<<0, 0, E.pose.theta>>))
    /\ [][ret'.op = "copy" => f' = f /\ ~IsNone(f) /\ ret'.outcome = "ok"]_vars

\* a copy of a static factor that holds a snapshot taken at a turned pose and
\* that selected the null hypothesis in a later evaluation
C28_Witness ==
    /\ Copied
    /\ F.static /\ ~F._first_time
    /\ ~IsNone(F._init_normal_forms)
    /\ F._init_orientation = Some(<<0, 0, 1>>)
    /\ F._null_hypo
    /\ ~E.first

\* location and orientation of the pose of the last evaluation (lines 121-122)
LocationOf(pose) == <<pose.x, pose.y, F.z>>
OrientationOf(pose) == <<0, 0, pose.theta>>

\* the factor holds the pose of its last evaluation as its initial pose
InitPoseIsLastPose ==
    /\ F._init_tform = Some(from_conventional(LocationOf(E.pose), OrientationOf(E.pose)))
    /\ F._init_orientation = Some(OrientationOf(E.pose))

Recorded == {"idc", "result", "cov", "last_se2", "end"}

\* the number of steps the loop has processed up to and including the append
\* of the current one
StepsRecorded ==
    IF idx < init_idx THEN 0
    ELSE IF pos \in Recorded \cup {"for", "done"} THEN idx - init_idx + 1
    ELSE idx - init_idx

\* C30: the main loop ends; it takes the indices of the recording one by one
\* in increasing order, processes those from init_idx on and none past
\* end_idx, and is left at end_idx or at the end of the recording, whichever
\* comes first; each processed step appends one estimate, read after that
\* step's solve for that step's pose, so the estimates are as many as the
\* processed steps.
C30_LoopTerminates ==
    /\ <>(pos = "done")
    /\ []( /\ idx <= end_idx
           /\ pos \notin {"for", "done"} => idx >= init_idx
           /\ pos = "done" => idx >= init_idx
           /\ Len(pose_estimations) = StepsRecorded
           /\ \A k \in {1, Len(pose_estimations)} \cap DOMAIN pose_estimations :
                 /\ pose_estimations[k].idx = init_idx + k - 1
                 /\ pose_estimations[k].key = pose_estimations[k].idx
                 /\ pose_estimations[k].fresh )
    /\ [][ /\ idx' # idx => idx' = idx + 1 /\ pos = "for"
           /\ pose_estimations' # pose_estimations =>
                 /\ pos = "last_pose" /\ call.name = "solve_one_step"
                 /\ SubSeq(pose_estimations', 1, Len(pose_estimations)) = pose_estimations
                 /\ Len(pose_estimations') = Len(pose_estimations) + 1
           /\ (pos' = "done" /\ pos # "done") =>
                 \/ pos = "end" /\ idx = end_idx
                 \/ pos = "for" /\ idx < end_idx ]_vars

\* the recording has ended after three processed steps, each with its
\* estimate
C30_Witness ==
    /\ pos = "done"
    /\ idx = init_idx + 2
    /\ Len(pose_estimations) = 3
    /\ pose_estimations[3].idx = idx

====
